---- MODULE Spec2Model ----
(***************************************************************************)
(* remindctl: a command-line dispatcher that forwards a subcommand to an   *)
(* external binary (reminderctl, sectionctl, subtaskctl).                  *)
(*                                                                         *)
(* One behaviour of the model is one invocation.  An invocation enters     *)
(* either through main() (entry = "main": the argument parser, then the    *)
(* handler bound by set_defaults(func=...)), or by a call of a handler     *)
(* function run_add_cmd / run_section_cmd / run_subtask_cmd with a parsed  *)
(* namespace (entry = "direct").  main() registers only the subtask        *)
(* parser, so the add and section handlers are reached by direct calls     *)
(* only.                                                                   *)
(***************************************************************************)
EXTENDS Integers, Sequences, FiniteSets, TLC

VARIABLES
    pc,         \* position of the invocation
    entry,      \* "main" or "direct"
    command,    \* subcommand named on the command line (None: none given)
    args,       \* the parsed namespace
    fs,         \* filesystem: status of each candidate binary path
    stages,     \* components that have run, in order
    path,       \* the binary path the handler settled on
    cmd_parts,  \* the argument vector built so far
    result,     \* CompletedProcess of the child (stdout, stderr, returncode)
    raised,     \* exception propagating out of the handler (kind, msg)
    out,        \* writes to sys.stdout, one entry per print call
    err,        \* writes to sys.stderr
    exit,       \* process exit status (NoExit while running)
    spawned,    \* child processes started
    runCalls    \* calls of subprocess.run

vars == <<pc, entry, command, args, fs, stages, path, cmd_parts, result,
          raised, out, err, exit, spawned, runCalls>>

----------------------------------------------------------------------------
(* Bounds *)

MaxReturnCode == 2

----------------------------------------------------------------------------
(* Values *)

None == "<None>"
NoExit == -1
NoResult == [stdout |-> None, stderr |-> None, returncode |-> -1]
NoExc == [kind |-> None, msg |-> None]

\* Python truthiness of an optional string: None and "" are falsy.
Truthy(v) == v # None /\ v # ""

Handlers == {"add", "section", "subtask"}

\* Subparsers registered by main().
Registered == {"subtask"}

\* choices= of the positional "operation" of each subparser.
SectionChoices == {"create", "list", "update", "delete", "lists"}
SubtaskChoices == {"create", "list", "update", "delete"}

Choices(c) == CASE c = "section" -> SectionChoices
                [] c = "subtask" -> SubtaskChoices
                [] OTHER -> {}

\* Name of the binary each handler runs.
BinaryName(h) == CASE h = "add" -> "reminderctl"
                   [] h = "section" -> "sectionctl"
                   [] h = "subtask" -> "subtaskctl"

\* os.path.dirname(os.path.dirname(script_dir)) and os.path.dirname(script_dir)
\* for script_dir = <root>/remindctl/commands.
ProjectRoot == "/opt/app"
PackageDir == ProjectRoot \o "/remindctl"

Join(dir, name) == dir \o "/" \o name

PrimaryPath(h) == Join(ProjectRoot, BinaryName(h))
FallbackPath(h) == Join(PackageDir, BinaryName(h))

Paths == {PrimaryPath(h) : h \in Handlers} \cup {FallbackPath(h) : h \in Handlers}

\* What can be at a path: nothing; an executable that runs; a file that
\* exists but may not be executed (PermissionError from subprocess.run); a
\* script whose interpreter is missing (FileNotFoundError from subprocess.run).
Status == {"absent", "exec", "noexec", "badinterp"}

Exists(f, p) == f[p] # "absent"

EmptyArgs == [operation |-> None, title |-> None, section_id |-> None,
              list_id |-> None, display_name |-> None, parent_id |-> None,
              subtask_id |-> None, new_title |-> None]

Opt(v) == {None, "", v}

AddArgs ==
    {[EmptyArgs EXCEPT !.title = t, !.section_id = s, !.list_id = l] :
        t \in {"", "Buy milk"}, s \in Opt("S1"), l \in Opt("Groceries")}

SectionArgs ==
    {[EmptyArgs EXCEPT !.operation = o, !.list_id = l, !.section_id = s,
                       !.display_name = d] :
        o \in SectionChoices \cup {"bogus"}, l \in Opt("L1"), s \in Opt("S1"),
        d \in Opt("Work")}

SubtaskArgs ==
    {[EmptyArgs EXCEPT !.operation = o, !.parent_id = p, !.subtask_id = s,
                       !.title = t, !.new_title = n] :
        o \in SubtaskChoices \cup {"bogus"}, p \in Opt("P1"), s \in Opt("ST1"),
        t \in Opt("T1"), n \in Opt("New")}

ArgsOf(c) == CASE c = "add" -> AddArgs
               [] c = "section" -> SectionArgs
               [] c = "subtask" -> SubtaskArgs
               [] OTHER -> {EmptyArgs}

\* Filesystems: the two candidate paths of the binary of c hold anything,
\* every other path is absent.
FileSystems(c) ==
    IF c \notin Handlers THEN {[p \in Paths |-> "absent"]}
    ELSE {[p \in Paths |-> IF p = PrimaryPath(c) THEN a
                           ELSE IF p = FallbackPath(c) THEN b
                           ELSE "absent"] : a \in Status, b \in Status}

----------------------------------------------------------------------------
(* Text *)

Repr(s) == "'" \o s \o "'"

RECURSIVE ReprItems(_)
ReprItems(xs) ==
    IF xs = <<>> THEN ""
    ELSE IF Len(xs) = 1 THEN Repr(xs[1])
    ELSE Repr(xs[1]) \o ", " \o ReprItems(Tail(xs))

\* repr() of a list of strings.
ReprList(xs) == "[" \o ReprItems(xs) \o "]"

\* print(x): one write of x and a newline; print(x, end=''): one write of x.
Line(s) == s \o "\n"

VersionText == Line("remindctl 0.1.0")
HelpText == Line("usage: remindctl [-h] [--version] {subtask} ...")
UsageText(prog) == Line("usage: " \o prog \o " [-h] ...")

\* ArgumentParser.error: usage, then "<prog>: error: <message>", on stderr.
ParserError(prog, msg) == <<UsageText(prog), Line(prog \o ": error: " \o msg)>>

----------------------------------------------------------------------------
(* Executable location: the first part of each handler *)

Found(p) == [ok |-> TRUE, path |-> p, msg |-> None]
NotFound(m) == [ok |-> FALSE, path |-> None, msg |-> m]

\* run_add_cmd: the project root only.
LocateAdd(f) ==
    LET reminderctl_path == Join(ProjectRoot, "reminderctl")
    IN  IF ~Exists(f, reminderctl_path)
        THEN NotFound("reminderctl binary not found at " \o reminderctl_path
                      \o ". Make sure to compile reminderctl.swift first.")
        ELSE Found(reminderctl_path)

\* run_section_cmd: the project root, then the package directory.
LocateSection(f) ==
    LET first == Join(ProjectRoot, "sectionctl")
        sectionctl_path == IF ~Exists(f, first)
                           THEN Join(PackageDir, "sectionctl")
                           ELSE first
    IN  IF ~Exists(f, sectionctl_path)
        THEN NotFound("sectionctl binary not found. Expected at "
                      \o Join(ProjectRoot, "sectionctl")
                      \o ". Make sure to compile sectionctl.swift first.")
        ELSE Found(sectionctl_path)

\* run_subtask_cmd: the project root, then the package directory.
LocateSubtask(f) ==
    LET first == Join(ProjectRoot, "subtaskctl")
        subtaskctl_path == IF ~Exists(f, first)
                           THEN Join(PackageDir, "subtaskctl")
                           ELSE first
    IN  IF ~Exists(f, subtaskctl_path)
        THEN NotFound("subtaskctl binary not found. Expected at "
                      \o Join(ProjectRoot, "subtaskctl")
                      \o ". Make sure to compile subtaskctl.swift first.")
        ELSE Found(subtaskctl_path)

LocateBinary(h, f) == CASE h = "add" -> LocateAdd(f)
                        [] h = "section" -> LocateSection(f)
                        [] h = "subtask" -> LocateSubtask(f)

----------------------------------------------------------------------------
(* Argument vector and required-field checks: the second part of each     *)
(* handler                                                                *)

Built(parts) == [ok |-> TRUE, parts |-> parts, msg |-> None]
Invalid(m) == [ok |-> FALSE, parts |-> <<>>, msg |-> m]

\* AddCmdParts with the two branches exchanged: the list wins over the section.
AddCmdPartsListFirst(p, a) ==
    LET cmd == <<p, "add", a.title>>
    IN  IF Truthy(a.list_id) THEN Built(cmd \o <<"--list", a.list_id>>)
        ELSE IF Truthy(a.section_id) THEN Built(cmd \o <<"--section", a.section_id>>)
        ELSE Invalid("Either --section or --list must be specified")

AddCmdParts(p, a) ==
    LET cmd == <<p, "add", a.title>>
    IN  IF Truthy(a.section_id) THEN Built(cmd \o <<"--section", a.section_id>>)
        ELSE IF Truthy(a.list_id) THEN Built(cmd \o <<"--list", a.list_id>>)
        ELSE Invalid("Either --section or --list must be specified")

SectionCmdParts(p, a) ==
    LET cmd == <<p, a.operation>>
    IN  CASE a.operation = "create" ->
               IF ~Truthy(a.list_id) \/ ~Truthy(a.display_name)
               THEN Invalid("Both --list-id and --display-name are required for create operation.")
               ELSE Built(cmd \o <<a.list_id, a.display_name>>)
          [] a.operation = "list" ->
               IF Truthy(a.list_id) THEN Built(Append(cmd, a.list_id))
               ELSE Built(cmd)
          [] a.operation = "update" ->
               IF ~Truthy(a.section_id) \/ ~Truthy(a.display_name)
               THEN Invalid("Both --section-id and --display-name are required for update operation.")
               ELSE Built(cmd \o <<a.section_id, a.display_name>>)
          [] a.operation = "delete" ->
               IF ~Truthy(a.section_id)
               THEN Invalid("--section-id is required for delete operation.")
               ELSE Built(Append(cmd, a.section_id))
          [] a.operation = "lists" -> Built(cmd)
          [] OTHER -> Invalid("Unsupported section operation: " \o a.operation)

\* SubtaskCmdParts without the check of --subtask-id for delete.
SubtaskCmdPartsUnchecked(p, a) ==
    LET cmd == <<p, a.operation>>
    IN  CASE a.operation = "create" ->
               IF ~Truthy(a.parent_id) \/ ~Truthy(a.title)
               THEN Invalid("Both --parent-id and --title are required for create operation.")
               ELSE Built(cmd \o <<a.parent_id, a.title>>)
          [] a.operation = "list" ->
               IF ~Truthy(a.parent_id)
               THEN Invalid("--parent-id is required for list operation.")
               ELSE Built(Append(cmd, a.parent_id))
          [] a.operation = "update" ->
               IF ~Truthy(a.subtask_id)
               THEN Invalid("--subtask-id is required for update operation.")
               ELSE IF Truthy(a.new_title)
                    THEN Built(cmd \o <<a.subtask_id, a.new_title>>)
                    ELSE Built(Append(cmd, a.subtask_id))
          [] a.operation = "delete" -> Built(Append(cmd, a.subtask_id))
          [] OTHER -> Invalid("Unsupported subtask operation: " \o a.operation)

\* SubtaskCmdParts testing new_title against None instead of its truth
\* value: an empty --new-title is passed on.
SubtaskCmdPartsEmptyTitle(p, a) ==
    LET cmd == <<p, a.operation>>
    IN  CASE a.operation = "create" ->
               IF ~Truthy(a.parent_id) \/ ~Truthy(a.title)
               THEN Invalid("Both --parent-id and --title are required for create operation.")
               ELSE Built(cmd \o <<a.parent_id, a.title>>)
          [] a.operation = "list" ->
               IF ~Truthy(a.parent_id)
               THEN Invalid("--parent-id is required for list operation.")
               ELSE Built(Append(cmd, a.parent_id))
          [] a.operation = "update" ->
               IF ~Truthy(a.subtask_id)
               THEN Invalid("--subtask-id is required for update operation.")
               ELSE IF a.new_title # None
                    THEN Built(cmd \o <<a.subtask_id, a.new_title>>)
                    ELSE Built(Append(cmd, a.subtask_id))
          [] a.operation = "delete" ->
               IF ~Truthy(a.subtask_id)
               THEN Invalid("--subtask-id is required for delete operation.")
               ELSE Built(Append(cmd, a.subtask_id))
          [] OTHER -> Invalid("Unsupported subtask operation: " \o a.operation)

SubtaskCmdParts(p, a) ==
    LET cmd == <<p, a.operation>>
    IN  CASE a.operation = "create" ->
               IF ~Truthy(a.parent_id) \/ ~Truthy(a.title)
               THEN Invalid("Both --parent-id and --title are required for create operation.")
               ELSE Built(cmd \o <<a.parent_id, a.title>>)
          [] a.operation = "list" ->
               IF ~Truthy(a.parent_id)
               THEN Invalid("--parent-id is required for list operation.")
               ELSE Built(Append(cmd, a.parent_id))
          [] a.operation = "update" ->
               IF ~Truthy(a.subtask_id)
               THEN Invalid("--subtask-id is required for update operation.")
               ELSE IF Truthy(a.new_title)
                    THEN Built(cmd \o <<a.subtask_id, a.new_title>>)
                    ELSE Built(Append(cmd, a.subtask_id))
          [] a.operation = "delete" ->
               IF ~Truthy(a.subtask_id)
               THEN Invalid("--subtask-id is required for delete operation.")
               ELSE Built(Append(cmd, a.subtask_id))
          [] OTHER -> Invalid("Unsupported subtask operation: " \o a.operation)

BuildCmdParts(h, p, a) == CASE h = "add" -> AddCmdParts(p, a)
                            [] h = "section" -> SectionCmdParts(p, a)
                            [] h = "subtask" -> SubtaskCmdParts(p, a)

----------------------------------------------------------------------------
(* Messages and writes of the except clauses *)

\* str() of subprocess.CalledProcessError.
CalledProcessErrorMsg(cmd, rc) ==
    "Command '" \o ReprList(cmd) \o "' returned non-zero exit status "
        \o ToString(rc) \o "."

\* str() of the OSError that subprocess.run raises when exec fails.
NoSuchFileMsg(p) == "[Errno 2] No such file or directory: " \o Repr(p)
PermissionMsg(p) == "[Errno 13] Permission denied: " \o Repr(p)

\* CalledProcessErrorWrites without the line for the captured stderr.
CalledProcessErrorWritesNoStderr(h, msg, res) ==
    << Line("Error running " \o BinaryName(h) \o ": " \o msg),
       Line("Stdout: " \o res.stdout) >>

\* except subprocess.CalledProcessError: three print calls, to stdout.
CalledProcessErrorWrites(h, msg, res) ==
    << Line("Error running " \o BinaryName(h) \o ": " \o msg),
       Line("Stdout: " \o res.stdout),
       Line("Stderr: " \o res.stderr) >>

\* except FileNotFoundError: one print call, to stdout.
FileNotFoundWrites(h, msg) ==
    << Line("Error: " \o msg \o ". Make sure '" \o BinaryName(h)
            \o "' is compiled and accessible.") >>

\* The success path: stdout always, stderr when non-empty, both by print()
\* without file=, that is to sys.stdout.
RelayWrites(res) ==
    IF res.stderr # "" THEN <<res.stdout, res.stderr>> ELSE <<res.stdout>>

\* ErrorReport without the prefix.
ErrorReportBare(msg) == <<Line(msg)>>

\* main(): except Exception as e: print(f"Error: {e}", file=sys.stderr).
ErrorReport(msg) == <<Line("Error: " \o msg)>>

ErrorExitStatus == 1

----------------------------------------------------------------------------
(* The invocation *)

Entries(e) == IF e = "main" THEN {None, "--version", "bogus"} \cup Handlers
              ELSE Handlers

Init ==
    /\ pc = "Start"
    /\ entry \in {"main", "direct"}
    /\ command \in Entries(entry)
    /\ args \in ArgsOf(command)
    /\ fs \in FileSystems(command)
    /\ stages = <<>>
    /\ path = None
    /\ cmd_parts = <<>>
    /\ result = NoResult
    /\ raised = NoExc
    /\ out = <<>>
    /\ err = <<>>
    /\ exit = NoExit
    /\ spawned = 0
    /\ runCalls = 0

\* parser.parse_args() meeting --version: the version action prints and exits.
ParseVersion ==
    /\ pc = "Start" /\ entry = "main"
    /\ command = "--version"
    /\ out' = Append(out, VersionText)
    /\ exit' = 0
    /\ pc' = "Done"
    /\ stages' = Append(stages, "Router")
    /\ UNCHANGED <<entry, command, args, fs, path, cmd_parts, result, raised,
                   err, spawned, runCalls>>

\* parser.parse_args() rejecting the command line: a subcommand that is not
\* registered, or an operation outside choices=.  ArgumentParser.error exits 2.
ParseError ==
    /\ pc = "Start" /\ entry = "main"
    /\ command \notin {None, "--version"}
    /\ \/ /\ command \notin Registered
          /\ err' = err \o ParserError("remindctl",
                        "argument command: invalid choice: " \o Repr(command))
       \/ /\ command \in Registered
          /\ args.operation \notin Choices(command)
          /\ err' = err \o ParserError("remindctl " \o command,
                        "argument operation: invalid choice: "
                            \o Repr(args.operation))
    /\ exit' = 2
    /\ pc' = "Done"
    /\ stages' = Append(stages, "Router")
    /\ UNCHANGED <<entry, command, args, fs, path, cmd_parts, result, raised,
                   out, spawned, runCalls>>

\* parser.parse_args() returning a namespace.
ParseOk ==
    /\ pc = "Start" /\ entry = "main"
    /\ \/ command = None
       \/ command \in Registered /\ args.operation \in Choices(command)
    /\ pc' = "Parsed"
    /\ stages' = Append(stages, "Router")
    /\ UNCHANGED <<entry, command, args, fs, path, cmd_parts, result, raised,
                   out, err, exit, spawned, runCalls>>

\* if args.command is None: parser.print_help(); sys.exit(0)
PrintHelp ==
    /\ pc = "Parsed"
    /\ command = None
    /\ out' = Append(out, HelpText)
    /\ exit' = 0
    /\ pc' = "Done"
    /\ UNCHANGED <<entry, command, args, fs, stages, path, cmd_parts, result,
                   raised, err, spawned, runCalls>>

\* if hasattr(args, 'func'): args.func(args).  Every registered subparser
\* sets func, so the else branch of main() is never taken.
Dispatch ==
    /\ pc = "Parsed"
    /\ command # None
    /\ pc' = "Locate"
    /\ UNCHANGED <<entry, command, args, fs, stages, path, cmd_parts, result,
                   raised, out, err, exit, spawned, runCalls>>

\* A handler function called with a namespace, not through main().
CallHandler ==
    /\ pc = "Start" /\ entry = "direct"
    /\ pc' = "Locate"
    /\ UNCHANGED <<entry, command, args, fs, stages, path, cmd_parts, result,
                   raised, out, err, exit, spawned, runCalls>>

\* The handler resolves the binary path.
Locate ==
    /\ pc = "Locate"
    /\ LET r == LocateBinary(command, fs)
       IN  /\ stages' = Append(stages, "Locator")
           /\ IF r.ok
              THEN /\ path' = r.path
                   /\ pc' = "Build"
                   /\ UNCHANGED raised
              ELSE /\ raised' = [kind |-> "FileNotFoundError", msg |-> r.msg]
                   /\ pc' = "Raised"
                   /\ UNCHANGED path
    /\ UNCHANGED <<entry, command, args, fs, cmd_parts, result, out, err, exit,
                   spawned, runCalls>>

\* The handler builds cmd_parts, checking the fields the operation needs.
Build ==
    /\ pc = "Build"
    /\ LET r == BuildCmdParts(command, path, args)
       IN  /\ stages' = Append(stages, "Validator")
           /\ IF r.ok
              THEN /\ cmd_parts' = r.parts
                   /\ pc' = "Run"
                   /\ UNCHANGED raised
              ELSE /\ raised' = [kind |-> "ValueError", msg |-> r.msg]
                   /\ pc' = "Raised"
                   /\ UNCHANGED cmd_parts
    /\ UNCHANGED <<entry, command, args, fs, path, result, out, err, exit,
                   spawned, runCalls>>

\* subprocess.run(cmd_parts, capture_output=True, text=True, check=True)
Run ==
    /\ pc = "Run"
    /\ runCalls' = runCalls + 1
    /\ stages' = Append(stages, "Invoker")
    /\ \/ /\ fs[cmd_parts[1]] = "exec"
          /\ \E so \in {"", "done\n"}, se \in {"", "warning\n"},
                rc \in 0..MaxReturnCode :
                /\ result' = [stdout |-> so, stderr |-> se, returncode |-> rc]
                /\ IF rc = 0
                   THEN pc' = "Relay" /\ UNCHANGED raised
                   ELSE /\ pc' = "ExceptCalledProcessError"
                        /\ raised' = [kind |-> "CalledProcessError",
                                      msg |-> CalledProcessErrorMsg(cmd_parts, rc)]
          /\ spawned' = spawned + 1
       \/ /\ fs[cmd_parts[1]] = "noexec"
          /\ raised' = [kind |-> "PermissionError",
                        msg |-> PermissionMsg(cmd_parts[1])]
          /\ pc' = "Raised"
          /\ UNCHANGED <<result, spawned>>
       \/ /\ fs[cmd_parts[1]] = "badinterp"
          /\ raised' = [kind |-> "FileNotFoundError",
                        msg |-> NoSuchFileMsg(cmd_parts[1])]
          /\ pc' = "ExceptFileNotFound"
          /\ UNCHANGED <<result, spawned>>
    /\ UNCHANGED <<entry, command, args, fs, path, cmd_parts, out, err, exit>>

\* print(result.stdout, end=''); if result.stderr: print(result.stderr, end='')
Relay ==
    /\ pc = "Relay"
    /\ out' = out \o RelayWrites(result)
    /\ pc' = "Returned"
    /\ UNCHANGED <<entry, command, args, fs, stages, path, cmd_parts, result,
                   raised, err, exit, spawned, runCalls>>

\* except subprocess.CalledProcessError as e: print ...; raise
OnCalledProcessError ==
    /\ pc = "ExceptCalledProcessError"
    /\ out' = out \o CalledProcessErrorWrites(command, raised.msg, result)
    /\ pc' = "Raised"
    /\ UNCHANGED <<entry, command, args, fs, stages, path, cmd_parts, result,
                   raised, err, exit, spawned, runCalls>>

\* except FileNotFoundError as e: print ...; raise
OnFileNotFound ==
    /\ pc = "ExceptFileNotFound"
    /\ out' = out \o FileNotFoundWrites(command, raised.msg)
    /\ pc' = "Raised"
    /\ UNCHANGED <<entry, command, args, fs, stages, path, cmd_parts, result,
                   raised, err, exit, spawned, runCalls>>

\* main(): except Exception as e: print(f"Error: {e}", file=sys.stderr); sys.exit(1)
MainExcept ==
    /\ pc = "Raised" /\ entry = "main"
    /\ err' = err \o ErrorReport(raised.msg)
    /\ exit' = ErrorExitStatus
    /\ pc' = "Done"
    /\ UNCHANGED <<entry, command, args, fs, stages, path, cmd_parts, result,
                   raised, out, spawned, runCalls>>

\* main(): the handler returned; the interpreter exits with status 0.
MainReturn ==
    /\ pc = "Returned" /\ entry = "main"
    /\ exit' = 0
    /\ pc' = "Done"
    /\ UNCHANGED <<entry, command, args, fs, stages, path, cmd_parts, result,
                   raised, out, err, spawned, runCalls>>

Next ==
    \/ ParseVersion
    \/ ParseError
    \/ ParseOk
    \/ PrintHelp
    \/ Dispatch
    \/ CallHandler
    \/ Locate
    \/ Build
    \/ Run
    \/ Relay
    \/ OnCalledProcessError
    \/ OnFileNotFound
    \/ MainExcept
    \/ MainReturn

Spec == Init /\ [][Next]_vars

\* The invocation is over: the process has exited, or the directly called
\* handler has returned or raised.
Terminated ==
    \/ pc = "Done"
    \/ entry = "direct" /\ pc \in {"Raised", "Returned"}

TypeOK ==
    /\ pc \in {"Start", "Parsed", "Locate", "Build", "Run", "Relay",
               "ExceptCalledProcessError", "ExceptFileNotFound", "Raised",
               "Returned", "Done"}
    /\ entry \in {"main", "direct"}
    /\ exit \in {NoExit, 0, 1, 2}
    /\ spawned \in 0..1
    /\ runCalls \in 0..1

----------------------------------------------------------------------------
(* Vocabulary of the properties *)

\* A field is missing when it is absent or empty.
Missing(v) == v = None \/ v = ""

\* The fields each operation requires.
RequiredFields(c, op) ==
    CASE c = "section" /\ op = "create" -> {"list_id", "display_name"}
      [] c = "section" /\ op = "update" -> {"section_id", "display_name"}
      [] c = "section" /\ op = "delete" -> {"section_id"}
      [] c = "subtask" /\ op = "create" -> {"parent_id", "title"}
      [] c = "subtask" /\ op = "list" -> {"parent_id"}
      [] c = "subtask" /\ op = "update" -> {"subtask_id"}
      [] c = "subtask" /\ op = "delete" -> {"subtask_id"}
      [] OTHER -> {}

\* The invocation lacks a field its operation requires.
RequiredMissing ==
    \/ command = "add" /\ Missing(args.section_id) /\ Missing(args.list_id)
    \/ /\ command \in {"section", "subtask"}
       /\ \E f \in RequiredFields(command, args.operation) : Missing(args[f])

Ran(stage) == \E i \in 1..Len(stages) : stages[i] = stage

\* The handler of the subcommand was entered.
HandlerEntered == Ran("Locator")

Wrote(stream, text) == \E i \in 1..Len(stream) : stream[i] = text

----------------------------------------------------------------------------
(* C1: an invocation that lacks a required field of its operation never    *)
(* calls subprocess.run and never starts a child process, whatever is on   *)
(* the filesystem.                                                         *)

C1_NoSpawnOnMissingField ==
    RequiredMissing => (spawned = 0 /\ runCalls = 0 /\ result = NoResult)

\* The binary is present and executable, and the field check has rejected
\* the invocation.
C1_Witness ==
    /\ pc = "Done" /\ entry = "main"
    /\ RequiredMissing
    /\ path # None
    /\ fs[path] = "exec"
    /\ raised.kind = "ValueError"
    /\ spawned = 0

----------------------------------------------------------------------------
(* C2: when a required field is missing the invocation fails with the      *)
(* missing-field error and the executable locator has not been consulted,  *)
(* also when the binary is absent at every location.                       *)

C2_ValidatorBeforeLocator ==
    (Terminated /\ RequiredMissing /\ (entry = "direct" \/ command \in Registered))
        => (raised.kind = "ValueError" /\ ~Ran("Locator"))

----------------------------------------------------------------------------
(* C3: add, section and subtask given to main() each reach their handler;  *)
(* add with neither --section nor --list ends with the missing-field error *)
(* reported, exit status 1 and no child.                                   *)

C3_AllSubcommandsDispatched ==
    (pc = "Done" /\ entry = "main" /\ command \in Handlers
        /\ (command = "add" \/ args.operation \in Choices(command)))
        => /\ HandlerEntered
           /\ (command = "add" /\ Missing(args.section_id) /\ Missing(args.list_id))
                => /\ exit = 1
                   /\ spawned = 0
                   /\ Wrote(err, "Error: Either --section or --list must be specified\n")

----------------------------------------------------------------------------
(* C4 as stated: when the child exits non-zero the dispatcher exits 1,     *)
(* does not run the child again, and reproduces the captured stdout and    *)
(* the captured stderr as they are, nothing added and nothing removed.     *)

\* Some print call wrote exactly the text (an empty text needs no write).
Verbatim(text) == text = "" \/ Wrote(out, text) \/ Wrote(err, text)

C4_VerbatimOnFailure ==
    (Terminated /\ result.returncode > 0)
        => /\ entry = "main" => exit = 1
           /\ runCalls = 1
           /\ Verbatim(result.stdout)
           /\ Verbatim(result.stderr)

(* C4 amended: when the child exits non-zero, subprocess.run has been      *)
(* called once; the handler writes three lines to standard output, "Error  *)
(* running <binary>: <exception>", "Stdout: " with the captured stdout and *)
(* "Stderr: " with the captured stderr, each captured text unchanged after *)
(* its label and followed by a newline; main() then writes "Error:         *)
(* <exception>" to standard error and exits with status 1.                *)

C4_LabelledOnFailure ==
    (Terminated /\ result.returncode > 0)
        => /\ runCalls = 1 /\ spawned = 1
           /\ raised.kind = "CalledProcessError"
           /\ Len(out) = 3
           /\ out[1] = "Error running " \o BinaryName(command) \o ": "
                           \o raised.msg \o "\n"
           /\ out[2] = "Stdout: " \o result.stdout \o "\n"
           /\ out[3] = "Stderr: " \o result.stderr \o "\n"
           /\ entry = "main"
                => (exit = 1 /\ err = <<"Error: " \o raised.msg \o "\n">>)

\* The child wrote to both streams and exited non-zero under main().
C4_Witness ==
    /\ pc = "Done" /\ entry = "main"
    /\ result.returncode > 0
    /\ result.stdout # "" /\ result.stderr # ""
    /\ exit = 1

----------------------------------------------------------------------------
(* C5: every handler tries the primary path and then the fallback path and *)
(* uses the first that exists; with neither, it fails with the not-found   *)
(* error naming the primary path, exit status 1, no child and nothing on   *)
(* standard output.                                                        *)

\* The not-found message names path p.
NamesPath(msg, p) ==
    \E pre \in {"reminderctl binary not found at ",
                "sectionctl binary not found. Expected at ",
                "subtaskctl binary not found. Expected at "},
       suf \in {". Make sure to compile reminderctl.swift first.",
                ". Make sure to compile sectionctl.swift first.",
                ". Make sure to compile subtaskctl.swift first."} :
        msg = pre \o p \o suf

C5_PrimaryThenFallback ==
    (command \in Handlers /\ Ran("Locator"))
        => /\ Exists(fs, PrimaryPath(command)) => path = PrimaryPath(command)
           /\ (~Exists(fs, PrimaryPath(command)) /\ Exists(fs, FallbackPath(command)))
                => path = FallbackPath(command)
           /\ (~Exists(fs, PrimaryPath(command)) /\ ~Exists(fs, FallbackPath(command)))
                => /\ raised.kind = "FileNotFoundError"
                   /\ NamesPath(raised.msg, PrimaryPath(command))
                   /\ spawned = 0 /\ runCalls = 0
                   /\ out = <<>>
                   /\ pc = "Done" => exit = 1

----------------------------------------------------------------------------
(* C6: the add handler runs [binary, "add", title] followed by one flag    *)
(* pair: --section with the section identifier when one is present (a list *)
(* identifier given with it is dropped), otherwise --list with the list    *)
(* identifier; and it does run it whenever one of the two is present and   *)
(* the binary is found.                                                    *)

C6_AddArgv ==
    /\ (command = "add" /\ runCalls > 0)
         => cmd_parts = <<PrimaryPath("add"), "add", args.title>>
                \o (IF ~Missing(args.section_id)
                    THEN <<"--section", args.section_id>>
                    ELSE <<"--list", args.list_id>>)
    /\ (command = "add" /\ Terminated /\ entry = "direct" /\ ~RequiredMissing
            /\ Exists(fs, PrimaryPath("add")))
         => runCalls = 1

\* add "Buy milk" --list Groceries, run to the end.
C6_Witness ==
    /\ Terminated /\ command = "add" /\ spawned = 1
    /\ cmd_parts = <<"/opt/app/reminderctl", "add", "Buy milk", "--list", "Groceries">>

----------------------------------------------------------------------------
(* C7: the section and subtask handlers run [binary, operation] followed   *)
(* by the positionals of the operation, in order, and nothing else; an     *)
(* optional value that is not given is left out.                           *)

Given(v) == IF Missing(v) THEN <<>> ELSE <<v>>

Positionals(c, a) ==
    CASE c = "section" /\ a.operation = "create" -> <<a.list_id, a.display_name>>
      [] c = "section" /\ a.operation = "update" -> <<a.section_id, a.display_name>>
      [] c = "section" /\ a.operation = "delete" -> <<a.section_id>>
      [] c = "section" /\ a.operation = "list" -> Given(a.list_id)
      [] c = "section" /\ a.operation = "lists" -> <<>>
      [] c = "subtask" /\ a.operation = "create" -> <<a.parent_id, a.title>>
      [] c = "subtask" /\ a.operation = "list" -> <<a.parent_id>>
      [] c = "subtask" /\ a.operation = "delete" -> <<a.subtask_id>>
      [] c = "subtask" /\ a.operation = "update" -> <<a.subtask_id>> \o Given(a.new_title)

----------------------------------------------------------------------------
(* C8: when the child exits 0 the dispatcher writes the captured stdout to *)
(* its standard output, then the captured stderr, if not empty, to its     *)
(* standard error, writes nothing else and exits 0.                        *)

C8_RelayToRespectiveStreams ==
    (Terminated /\ result.returncode = 0)
        => /\ out = <<result.stdout>>
           /\ err = (IF result.stderr # "" THEN <<result.stderr>> ELSE <<>>)
           /\ entry = "main" => exit = 0

----------------------------------------------------------------------------
(* C9: main() without a subcommand prints the help and exits 0; with a     *)
(* subcommand that is not recognized it prints usage and exits 1; no       *)
(* handler runs and no child starts in either case.                        *)

UsagePrinted ==
    \/ Wrote(out, HelpText)
    \/ \E c \in {"remindctl"} \cup {"remindctl " \o h : h \in Handlers} :
          Wrote(err, UsageText(c))

C9_TopLevelUsage ==
    (pc = "Done" /\ entry = "main")
        => /\ command = None
                => (exit = 0 /\ out = <<HelpText>> /\ ~HandlerEntered /\ spawned = 0)
           /\ command = "bogus"
                => (exit = 1 /\ UsagePrinted /\ ~HandlerEntered /\ spawned = 0)

----------------------------------------------------------------------------
(* C10 as stated: every invocation of main() ends in exactly one of        *)
(* Relayed, ErrorReported and HelpPrinted; a failure after parsing ends in *)
(* ErrorReported, with one "Error: <message>" on standard error and exit   *)
(* status 1; exit status 0 occurs only in Relayed and in HelpPrinted       *)
(* without a subcommand.                                                   *)

Relayed == pc = "Done" /\ raised = NoExc /\ result.returncode = 0

ErrorWrites == {i \in 1..Len(err) : err[i] = "Error: " \o raised.msg \o "\n"}

ErrorReported ==
    /\ pc = "Done" /\ raised # NoExc
    /\ Cardinality(ErrorWrites) = 1 /\ Len(err) = 1
    /\ exit = 1

\* The help, or the usage message of the argument parser, was printed.
HelpPrinted == pc = "Done" /\ UsagePrinted

VersionPrinted == pc = "Done" /\ Wrote(out, VersionText)

Count(b) == IF b THEN 1 ELSE 0

====
